---- MODULE Spec2Model ----
(***************************************************************************)
(* Bayesian NBA shot analytics: the data pipeline of data_pull.py (position *)
(* mapping, position-specific Beta priors, per-player statistics) and the  *)
(* posterior computation of bayesian_model.py (left merge of the player    *)
(* statistics with the priors, conjugate update, credible interval,        *)
(* shrinkage), its analysis of the posterior records (sample-size          *)
(* categories, top list, extremes, player lookup), the write-out, and the  *)
(* conversion to JSON of convert_posterior_to_json.py.                     *)
(*                                                                         *)
(* Tables (pandas frames, parquet files) are sequences of records.  Real   *)
(* numbers are exact rationals [num, den]; a missing value is NaN.         *)
(***************************************************************************)
EXTENDS Integers, Sequences, FiniteSets, TLC

VARIABLES
    pc,                 \* which script step comes next
    positions_df,       \* roster table: PLAYER_ID -> raw POSITION string
    shots,              \* scraped shot table (no POSITION column yet)
    shots_df,           \* shot table with the POSITION column merged in
    priors_file,        \* position_priors_2023_24.parquet
    player_stats_file,  \* player_shot_stats_2023_24.parquet
    missing,            \* rows without matching prior, as reported by the merge
    results,            \* the frame compute_all_posteriors returns
    analysis,           \* what analyze_results reported
    lookup,             \* what the lookup_player calls reported
    posteriors_file,    \* bayesian_posteriors_2023_24.parquet
    json_file,          \* shot_chart_data.json
    aggregated          \* groupby results over a reordered and a split shot table

vars == <<pc, positions_df, shots, shots_df, priors_file, player_stats_file,
          missing, results, analysis, lookup, posteriors_file, json_file,
          aggregated>>

\* The variables of the analysis, the write-out and the aggregation study
reportVars == <<analysis, lookup, posteriors_file, json_file, aggregated>>

----------------------------------------------------------------------------
(* Bounds and program constants *)

\* Most shots a scraped table holds.
MaxShots == 6

\* data_pull.py: MIN_ATTEMPTS = 5
MIN_ATTEMPTS == 5

\* bayesian_model.py: CREDIBLE_INTERVAL = 0.95, as the rational 95/100
CREDIBLE_INTERVAL == [num |-> 95, den |-> 100]

PlayerIds == {1, 2}

\* The names the shot chart rows of a player carry (two spellings for player 1).
ScrapedNames(pid) == IF pid = 1 THEN {"A. Able", "A. Abel"} ELSE {"B. Baker"}

Zones == {"Above the Break 3", "Restricted Area"}

----------------------------------------------------------------------------
(* Missing values and exact rationals *)

NaN == [nan |-> TRUE]

Num(x) == [nan |-> FALSE, v |-> x]

isna(x) == x.nan

Rat(n, d) == [num |-> n, den |-> d]

RECURSIVE GCD(_, _)
GCD(a, b) == IF b = 0 THEN a ELSE GCD(b, a % b)

Abs(x) == IF x < 0 THEN 0 - x ELSE x

\* The fraction in lowest terms (denominators are positive)
Reduce(x) ==
    LET g == GCD(Abs(x.num), x.den)
    IN  Rat(x.num \div g, x.den \div g)

RatEq(x, y) == Reduce(x) = Reduce(y)

\* x <= y, for positive denominators
RatLeq(x, y) == x.num * y.den <= y.num * x.den

RatSub(x, y) == Rat(x.num * y.den - y.num * x.den, x.den * y.den)

----------------------------------------------------------------------------
(* Strings: TLA+ strings are atoms, so the characters of every string the  *)
(* position column can hold are tabulated, and str.upper, str.strip and    *)
(* the `in` test work on the characters.                                   *)

StrChars(s) ==
    CASE s = "G"       -> <<"G">>
      [] s = "F"       -> <<"F">>
      [] s = "C"       -> <<"C">>
      [] s = "G-F"     -> <<"G", "-", "F">>
      [] s = "F-G"     -> <<"F", "-", "G">>
      [] s = "F-C"     -> <<"F", "-", "C">>
      [] s = "C-F"     -> <<"C", "-", "F">>
      [] s = " c "     -> <<" ", "c", " ">>
      [] s = ""        -> <<>>
      [] s = "Guard"   -> <<"G", "u", "a", "r", "d">>
      [] s = "Forward" -> <<"F", "o", "r", "w", "a", "r", "d">>
      [] s = "Center"  -> <<"C", "e", "n", "t", "e", "r">>
      [] s = "Unknown" -> <<"U", "n", "k", "n", "o", "w", "n">>

UpperChar(c) ==
    CASE c = "a" -> "A" [] c = "c" -> "C" [] c = "d" -> "D" [] c = "e" -> "E"
      [] c = "k" -> "K" [] c = "n" -> "N" [] c = "o" -> "O" [] c = "r" -> "R"
      [] c = "t" -> "T" [] c = "u" -> "U" [] c = "w" -> "W"
      [] OTHER -> c

upper(cs) == [i \in 1..Len(cs) |-> UpperChar(cs[i])]

RECURSIVE lstrip(_)
lstrip(cs) == IF cs # <<>> /\ Head(cs) = " " THEN lstrip(Tail(cs)) ELSE cs

RECURSIVE rstrip(_)
rstrip(cs) ==
    IF cs # <<>> /\ cs[Len(cs)] = " " THEN rstrip(SubSeq(cs, 1, Len(cs) - 1)) ELSE cs

strip(cs) == rstrip(lstrip(cs))

Contains(cs, c) == \E i \in 1..Len(cs) : cs[i] = c

\* The POSITION cell of a roster row: a string the API sends, or missing.
IsMissing(pos) == pos = "NaN"

map_position(pos) ==
    IF IsMissing(pos) THEN "Unknown"
    ELSE LET p == strip(upper(StrChars(pos)))
         IN  IF Contains(p, "G") THEN "Guard"
             ELSE IF p = <<"C">> THEN "Center"
             ELSE IF Contains(p, "F") \/ Contains(p, "C") THEN "Forward"
             ELSE "Unknown"

\* Lexicographic order of the strings that are grouping or sorting keys
\* (pandas sorts group keys; Python compares strings by code point).
StrOrder == <<"A. Abel", "A. Able", "Above the Break 3", "B. Baker", "Center",
              "Forward", "Guard", "Restricted Area", "Unknown">>

StrRank(s) == CHOOSE i \in 1..Len(StrOrder) : StrOrder[i] = s

----------------------------------------------------------------------------
(* Sorting a finite set into a sequence by a rank tuple of integers *)

RECURSIVE TupleLess(_, _)
TupleLess(a, b) ==
    IF a = <<>> \/ b = <<>> THEN FALSE
    ELSE IF Head(a) # Head(b) THEN Head(a) < Head(b)
    ELSE TupleLess(Tail(a), Tail(b))

\* kf is the function giving each element of S its rank tuple.
RECURSIVE SortSet(_, _)
SortSet(S, kf) ==
    IF S = {} THEN <<>>
    ELSE LET m == CHOOSE x \in S : \A y \in S : ~TupleLess(kf[y], kf[x])
         IN  <<m>> \o SortSet(S \ {m}, kf)

Rows(df) == {df[i] : i \in 1..Len(df)}

----------------------------------------------------------------------------
(* data_pull.py *)

\* SHOT_MADE_FLAG 'sum' over the rows of df with index in I
RECURSIVE SumMade(_, _)
SumMade(df, I) ==
    IF I = {} THEN 0
    ELSE LET i == CHOOSE j \in I : TRUE
         IN  df[i].SHOT_MADE_FLAG + SumMade(df, I \ {i})

\* merge_position_data: map the roster positions, left-merge them into the
\* shots on PLAYER_ID, fill the shots of players without a roster row.
MappedPositions(pdf) == [p \in DOMAIN pdf |-> map_position(pdf[p])]

merge_position_data(sdf, pdf) ==
    LET mapped == MappedPositions(pdf)
    IN  [i \in 1..Len(sdf) |->
            [PLAYER_ID       |-> sdf[i].PLAYER_ID,
             PLAYER_NAME     |-> sdf[i].PLAYER_NAME,
             SHOT_ZONE_BASIC |-> sdf[i].SHOT_ZONE_BASIC,
             SHOT_MADE_FLAG  |-> sdf[i].SHOT_MADE_FLAG,
             POSITION        |-> IF sdf[i].PLAYER_ID \in DOMAIN pdf
                                 THEN mapped[sdf[i].PLAYER_ID]
                                 ELSE "Unknown"]]

\* Mutant of KnownRows: the 'Unknown' rows are kept.
KnownRows_all(df) == df

\* df[df['POSITION'] != 'Unknown']
KnownRows(df) == SelectSeq(df, LAMBDA r : r.POSITION # "Unknown")

PriorKey(r) == <<r.POSITION, r.SHOT_ZONE_BASIC>>

\* Mutant of PriorRow: beta is the attempts, not the misses.
PriorRow_beta_attempts(df, k) ==
    LET I        == {i \in 1..Len(df) : <<df[i].POSITION, df[i].SHOT_ZONE_BASIC>> = k}
        makes    == SumMade(df, I)
        attempts == Cardinality(I)
    IN  [position |-> k[1], zone |-> k[2],
         makes    |-> makes,
         attempts |-> attempts,
         fg_pct   |-> Rat(makes, attempts),
         alpha    |-> makes,
         beta     |-> attempts]

\* Mutant of PriorRow: the makes are aggregated with 'first' instead of 'sum'.
PriorRow_first_made(df, k) ==
    LET I        == {i \in 1..Len(df) : PriorKey(df[i]) = k}
        first    == CHOOSE i \in I : \A j \in I : i <= j
        makes    == df[first].SHOT_MADE_FLAG
        attempts == Cardinality(I)
    IN  [position |-> k[1], zone |-> k[2],
         makes    |-> makes,
         attempts |-> attempts,
         fg_pct   |-> Rat(makes, attempts),
         alpha    |-> makes,
         beta     |-> attempts - makes]

\* One row of groupby(['POSITION', 'SHOT_ZONE_BASIC']).agg(sum, count, mean)
\* with the alpha and beta columns added.
PriorRow(df, k) ==
    LET I        == {i \in 1..Len(df) : PriorKey(df[i]) = k}
        makes    == SumMade(df, I)
        attempts == Cardinality(I)
    IN  [position |-> k[1], zone |-> k[2],
         makes    |-> makes,
         attempts |-> attempts,
         fg_pct   |-> Rat(makes, attempts),
         alpha    |-> makes,
         beta     |-> attempts - makes]

\* sort_values(['position', 'attempts'], ascending=[True, False]); rows equal on
\* both keep the order of the groupby, which is by zone.
PriorSortKey(r) == <<StrRank(r.position), 0 - r.attempts, StrRank(r.zone)>>

compute_position_priors(df) ==
    LET known == KnownRows(df)
        keys  == {PriorKey(known[i]) : i \in 1..Len(known)}
        rows  == {PriorRow(known, k) : k \in keys}
    IN  SortSet(rows, [r \in rows |-> PriorSortKey(r)])

StatKey(r) == <<r.PLAYER_ID, r.PLAYER_NAME, r.POSITION, r.SHOT_ZONE_BASIC>>

\* One row of groupby(['PLAYER_ID', 'PLAYER_NAME', 'POSITION', 'SHOT_ZONE_BASIC'])
StatRow(df, k) ==
    LET I        == {i \in 1..Len(df) : StatKey(df[i]) = k}
        makes    == SumMade(df, I)
        attempts == Cardinality(I)
    IN  [player_id |-> k[1], player_name |-> k[2], position |-> k[3], zone |-> k[4],
         makes      |-> makes,
         attempts   |-> attempts,
         raw_fg_pct |-> Rat(makes, attempts)]

\* The grouped frame of compute_player_stats with its columns renamed, before
\* the low-volume rows are filtered out (groupby sorts by the keys).
group_player_stats(df) ==
    LET keys == {StatKey(df[i]) : i \in 1..Len(df)}
        rows == {StatRow(df, k) : k \in keys}
    IN  SortSet(rows, [r \in rows |-> <<r.player_id, StrRank(r.player_name),
                                          StrRank(r.position), StrRank(r.zone)>>])

\* Mutant of AttemptsFilter: a strict comparison.
AttemptsFilter_strict(r) == r.attempts > MIN_ATTEMPTS

\* player_stats[player_stats['attempts'] >= MIN_ATTEMPTS]
AttemptsFilter(r) == r.attempts >= MIN_ATTEMPTS

StatSortKey(r) ==
    <<r.player_id, StrRank(r.player_name), StrRank(r.position), StrRank(r.zone)>>

compute_player_stats(df) ==
    LET keys == {StatKey(df[i]) : i \in 1..Len(df)}
        rows == {StatRow(df, k) : k \in keys}
    IN  SelectSeq(SortSet(rows, [r \in rows |-> StatSortKey(r)]), AttemptsFilter)

----------------------------------------------------------------------------
(* bayesian_model.py *)

\* scipy.stats.beta.ppf(q, a, b).  For shape parameters that are not both
\* positive the distribution does not exist and the routine returns NaN.
\* Otherwise the result is the one x in (0,1) whose regularized incomplete
\* beta function I_x(a, b) equals q; the value is kept as that description
\* (q, a, b) and compared with other numbers through I_x(a, b).
beta_ppf(q, a, b) ==
    IF a <= 0 \/ b <= 0 THEN NaN
    ELSE [nan |-> FALSE, q |-> q, a |-> a, b |-> b]

\* ci_high - ci_low of two ppf results: NaN as soon as one of them is NaN
ppf_diff(hi, lo) ==
    IF isna(hi) \/ isna(lo) THEN NaN ELSE [nan |-> FALSE, hi |-> hi, lo |-> lo]

\* Mutant of compute_posterior: the makes are not taken off the attempts.
compute_posterior_all_attempts(player_makes, player_attempts, prior_alpha, prior_beta) ==
    LET posterior_alpha == prior_alpha + player_makes
        posterior_beta  == prior_beta + player_attempts
        posterior_mean  == Rat(posterior_alpha, posterior_alpha + posterior_beta)
        alpha_level     == Rat(CREDIBLE_INTERVAL.den - CREDIBLE_INTERVAL.num,
                               2 * CREDIBLE_INTERVAL.den)
        upper_level     == Rat(alpha_level.den - alpha_level.num, alpha_level.den)
    IN  [posterior_alpha |-> posterior_alpha,
         posterior_beta  |-> posterior_beta,
         posterior_mean  |-> posterior_mean,
         ci_lower        |-> beta_ppf(alpha_level, posterior_alpha, posterior_beta),
         ci_upper        |-> beta_ppf(upper_level, posterior_alpha, posterior_beta)]

compute_posterior(player_makes, player_attempts, prior_alpha, prior_beta) ==
    LET posterior_alpha == prior_alpha + player_makes
        posterior_beta  == prior_beta + (player_attempts - player_makes)
        posterior_mean  == Rat(posterior_alpha, posterior_alpha + posterior_beta)
        alpha_level     == Rat(CREDIBLE_INTERVAL.den - CREDIBLE_INTERVAL.num,
                               2 * CREDIBLE_INTERVAL.den)
        upper_level     == Rat(alpha_level.den - alpha_level.num, alpha_level.den)
    IN  [posterior_alpha |-> posterior_alpha,
         posterior_beta  |-> posterior_beta,
         posterior_mean  |-> posterior_mean,
         ci_lower        |-> beta_ppf(alpha_level, posterior_alpha, posterior_beta),
         ci_upper        |-> beta_ppf(upper_level, posterior_alpha, posterior_beta)]

\* Mutant of compute_shrinkage: the operands swapped.
compute_shrinkage_swapped(raw_pct, posterior_mean) == RatSub(posterior_mean, raw_pct)

compute_shrinkage(raw_pct, posterior_mean) == RatSub(raw_pct, posterior_mean)

\* Mutant of MergeRow: the join is on the zone alone.
MergeRow_zone_only(row, priors) ==
    LET hit  == SelectSeq(priors, LAMBDA p : p.zone = row.zone)
        with(a, b, f) ==
            [player_id |-> row.player_id, player_name |-> row.player_name,
             position |-> row.position, zone |-> row.zone,
             makes |-> row.makes, attempts |-> row.attempts,
             raw_fg_pct |-> row.raw_fg_pct,
             alpha |-> a, beta |-> b, fg_pct |-> f]
    IN  IF hit = <<>> THEN <<with(NaN, NaN, NaN)>>
        ELSE [j \in 1..Len(hit) |->
                 with(Num(hit[j].alpha), Num(hit[j].beta), Num(hit[j].fg_pct))]

\* The rows one player-statistics row yields in player_stats.merge(priors,
\* on position and zone, how='left'): one per matching prior, in the priors'
\* order, or a single row with missing alpha, beta and fg_pct.
MergeRow(row, priors) ==
    LET hit  == SelectSeq(priors,
                    LAMBDA p : p.position = row.position /\ p.zone = row.zone)
        with(a, b, f) ==
            [player_id |-> row.player_id, player_name |-> row.player_name,
             position |-> row.position, zone |-> row.zone,
             makes |-> row.makes, attempts |-> row.attempts,
             raw_fg_pct |-> row.raw_fg_pct,
             alpha |-> a, beta |-> b, fg_pct |-> f]
    IN  IF hit = <<>> THEN <<with(NaN, NaN, NaN)>>
        ELSE [j \in 1..Len(hit) |->
                 with(Num(hit[j].alpha), Num(hit[j].beta), Num(hit[j].fg_pct))]

RECURSIVE LeftMerge(_, _)
LeftMerge(player_stats, priors) ==
    IF player_stats = <<>> THEN <<>>
    ELSE MergeRow(Head(player_stats), priors) \o LeftMerge(Tail(player_stats), priors)

\* merged['alpha'].isna().sum()
MissingCount(merged) == Cardinality({i \in 1..Len(merged) : isna(merged[i].alpha)})

\* merged.dropna(subset=['alpha', 'beta'])
DropMissing(merged) ==
    SelectSeq(merged, LAMBDA r : ~isna(r.alpha) /\ ~isna(r.beta))

\* The dictionary the loop appends for one merged row
PosteriorRecord(row) ==
    LET post == compute_posterior(row.makes, row.attempts, row.alpha.v, row.beta.v)
    IN  [player_id       |-> row.player_id,
         player_name     |-> row.player_name,
         position        |-> row.position,
         zone            |-> row.zone,
         attempts        |-> row.attempts,
         makes           |-> row.makes,
         raw_fg_pct      |-> row.raw_fg_pct,
         prior_fg_pct    |-> row.fg_pct.v,
         posterior_mean  |-> post.posterior_mean,
         ci_lower        |-> post.ci_lower,
         ci_upper        |-> post.ci_upper,
         ci_width        |-> ppf_diff(post.ci_upper, post.ci_lower),
         shrinkage       |-> compute_shrinkage(row.raw_fg_pct, post.posterior_mean),
         prior_alpha     |-> row.alpha.v,
         prior_beta      |-> row.beta.v,
         posterior_alpha |-> post.posterior_alpha,
         posterior_beta  |-> post.posterior_beta]

compute_all_posteriors(priors, player_stats) ==
    LET merged == LeftMerge(player_stats, priors)
        kept   == IF MissingCount(merged) > 0 THEN DropMissing(merged) ELSE merged
    IN  [i \in 1..Len(kept) |-> PosteriorRecord(kept[i])]

----------------------------------------------------------------------------
(* Comparing a ppf result with a rational.  For integer shape parameters   *)
(*   I_x(a, b) = sum_{j = a}^{n} C(n, j) x^j (1 - x)^(n - j),  n = a + b - 1 *)
(* and, I_x being increasing in x,  ppf(q) <= x  iff  q <= I_x(a, b).      *)
(* With x = p / d the sum is an integer over d^n; the integers outgrow the *)
(* machine range, so they are kept as little-endian base-10000 digits.     *)

RECURSIVE BigMul(_, _, _)
\* digits of x * k + c
BigMul(x, k, c) ==
    IF x = <<>> THEN (IF c = 0 THEN <<>> ELSE <<c % 10000>> \o BigMul(<<>>, k, c \div 10000))
    ELSE LET t == Head(x) * k + c
         IN  <<t % 10000>> \o BigMul(Tail(x), k, t \div 10000)

RECURSIVE BigAdd(_, _, _)
\* digits of x + y + c
BigAdd(x, y, c) ==
    IF x = <<>> /\ y = <<>> THEN (IF c = 0 THEN <<>> ELSE <<c>>)
    ELSE LET a == IF x = <<>> THEN 0 ELSE Head(x)
             b == IF y = <<>> THEN 0 ELSE Head(y)
             t == a + b + c
         IN  <<t % 10000>> \o BigAdd(IF x = <<>> THEN x ELSE Tail(x),
                                     IF y = <<>> THEN y ELSE Tail(y), t \div 10000)

RECURSIVE BigTrim(_)
\* without leading zero digits
BigTrim(x) ==
    IF x # <<>> /\ x[Len(x)] = 0 THEN BigTrim(SubSeq(x, 1, Len(x) - 1)) ELSE x

RECURSIVE BigLeqDigits(_, _, _)
BigLeqDigits(x, y, i) ==
    IF i = 0 THEN TRUE
    ELSE IF x[i] # y[i] THEN x[i] < y[i]
    ELSE BigLeqDigits(x, y, i - 1)

BigLeq(x, y) ==
    LET a == BigTrim(x)
        b == BigTrim(y)
    IN  IF Len(a) # Len(b) THEN Len(a) < Len(b) ELSE BigLeqDigits(a, b, Len(a))

RECURSIVE BigTimesPow(_, _, _)
\* digits of x * k^e
BigTimesPow(x, k, e) == IF e = 0 THEN x ELSE BigTimesPow(BigMul(x, k, 0), k, e - 1)

RECURSIVE Binomial(_, _)
Binomial(n, j) == IF j = 0 THEN 1 ELSE (Binomial(n, j - 1) * (n - j + 1)) \div j

RECURSIVE BetaTail(_, _, _, _, _)
\* sum_{i = j}^{n} C(n, i) p^i (d - p)^(n - i)
BetaTail(n, j, p, d, acc) ==
    IF j > n THEN acc
    ELSE BetaTail(n, j + 1, p, d,
             BigAdd(acc, BigTimesPow(BigTimesPow(<<Binomial(n, j)>>, p, j), d - p, n - j), 0))

\* q <= I_x(a, b), for x in [0, 1] and a ppf result that is not NaN
LevelLeqCdf(ci, x) ==
    LET n == ci.a + ci.b - 1
    IN  BigLeq(BigTimesPow(<<ci.q.num>>, x.den, n),
               BigMul(BetaTail(n, ci.a, x.num, x.den, <<>>), ci.q.den, 0))

\* I_x(a, b) <= q
CdfLeqLevel(ci, x) ==
    LET n == ci.a + ci.b - 1
    IN  BigLeq(BigMul(BetaTail(n, ci.a, x.num, x.den, <<>>), ci.q.den, 0),
               BigTimesPow(<<ci.q.num>>, x.den, n))

\* ci <= x and x <= ci; a comparison with NaN is false
PpfLeqRat(ci, x) == ~isna(ci) /\ LevelLeqCdf(ci, x)

RatLeqPpf(x, ci) == ~isna(ci) /\ CdfLeqLevel(ci, x)

\* width >= 0, width the difference of two ppf results of one distribution
WidthNonNegative(w) == ~isna(w) /\ RatLeq(w.lo.q, w.hi.q)

----------------------------------------------------------------------------
(* The pipeline *)

\* scrape_position_data: one row per player on a roster (drop_duplicates on
\* PLAYER_ID), a player on no roster has no row.  The rosters tried: two
\* guards; a guard and a center; a forward-center and a player whose position
\* is missing; a guard and a player on no roster.
PositionTables ==
    { (1 :> "G" @@ 2 :> "G"),
      (1 :> "G" @@ 2 :> "C"),
      (1 :> "F-C" @@ 2 :> "NaN"),
      (1 :> "G") }

\* The rows the shot chart of a player can hold
ShotRows ==
    {r \in [PLAYER_ID : PlayerIds,
            PLAYER_NAME : UNION {ScrapedNames(p) : p \in PlayerIds},
            SHOT_ZONE_BASIC : Zones,
            SHOT_MADE_FLAG : {0, 1}] : r.PLAYER_NAME \in ScrapedNames(r.PLAYER_ID)}

\* scrape_shot_data concatenates the players' frames in the order of the
\* player list, so the table is ordered by player; within a player the rows
\* are taken in one fixed order (the aggregations only count rows).
ShotRank(r) ==
    <<r.PLAYER_ID, StrRank(r.PLAYER_NAME), StrRank(r.SHOT_ZONE_BASIC), r.SHOT_MADE_FLAG>>

\* Before bayesian_model.main analyses anything: no report, no output files
NothingReported ==
    /\ analysis = <<>>
    /\ lookup = <<>>
    /\ posteriors_file = <<>>
    /\ json_file = <<>>
    /\ aggregated = <<>>

Init ==
    /\ pc = "scrape"
    /\ positions_df \in PositionTables
    /\ shots = <<>>
    /\ shots_df = <<>>
    /\ priors_file = <<>>
    /\ player_stats_file = <<>>
    /\ missing = 0
    /\ results = <<>>
    /\ NothingReported

\* One more row of the shot table (scrape_shot_data)
ScrapeShot(r) ==
    /\ pc = "scrape"
    /\ Len(shots) < MaxShots
    /\ IF shots = <<>> THEN TRUE
       ELSE ~TupleLess(ShotRank(r), ShotRank(shots[Len(shots)]))
    /\ shots' = Append(shots, r)
    /\ UNCHANGED <<pc, positions_df, shots_df, priors_file, player_stats_file,
                   missing, results>>
    /\ UNCHANGED reportVars

\* data_pull.main with freshly scraped tables: merge the positions (which maps
\* the roster table in place), compute the priors and the player statistics,
\* save them.  An empty shot table makes scrape_shot_data fail on its summary.
DataPullMain ==
    /\ pc = "scrape"
    /\ shots # <<>>
    /\ LET df == merge_position_data(shots, positions_df)
       IN  /\ shots_df' = df
           /\ priors_file' = compute_position_priors(df)
           /\ player_stats_file' = compute_player_stats(df)
    /\ positions_df' = MappedPositions(positions_df)
    /\ pc' = "pulled"
    /\ UNCHANGED <<shots, missing, results>>
    /\ UNCHANGED reportVars

\* bayesian_model.compute_all_posteriors on the two saved files
ComputeAllPosteriors ==
    /\ pc = "pulled"
    /\ missing' = MissingCount(LeftMerge(player_stats_file, priors_file))
    /\ results' = compute_all_posteriors(priors_file, player_stats_file)
    /\ pc' = "posteriors"
    /\ UNCHANGED <<positions_df, shots, shots_df, priors_file, player_stats_file>>
    /\ UNCHANGED reportVars

Next ==
    \/ \E r \in ShotRows : ScrapeShot(r)
    \/ DataPullMain
    \/ ComputeAllPosteriors

Spec == Init /\ [][Next]_vars

----------------------------------------------------------------------------
(* bayesian_model.py run on its own, on files a run of data_pull.py left:   *)
(* one or two priors and one or two player-statistics rows, the counts     *)
(* drawn from a few values that include large ones.                        *)

PriorOf(position, zone, makes, attempts) ==
    [position |-> position, zone |-> zone, makes |-> makes, attempts |-> attempts,
     fg_pct |-> Rat(makes, attempts), alpha |-> makes, beta |-> attempts - makes]

StatOf(id, name, position, zone, makes, attempts) ==
    [player_id |-> id, player_name |-> name, position |-> position, zone |-> zone,
     makes |-> makes, attempts |-> attempts, raw_fg_pct |-> Rat(makes, attempts)]

\* <<makes, attempts>> of a prior group
PriorCounts == {<<450, 1000>>, <<1, 2>>, <<0, 5>>, <<5, 5>>, <<3, 8>>}

\* <<makes, attempts>> of a player in a zone, attempts >= MIN_ATTEMPTS
StatCounts == {<<9, 10>>, <<900, 2000>>, <<5, 5>>, <<0, 5>>, <<3, 7>>}

PriorFiles ==
    LET guard(c) == PriorOf("Guard", "Above the Break 3", c[1], c[2])
    IN  {<<guard(c)>> : c \in PriorCounts}
        \cup {<<PriorOf("Center", "Above the Break 3", 3, 8), guard(c)>> : c \in PriorCounts}

StatFiles ==
    LET first(c) == StatOf(1, "A. Able", "Guard", "Above the Break 3", c[1], c[2])
    IN  {<<first(c)>> : c \in StatCounts}
        \cup {<<first(c), StatOf(2, "B. Baker", pos, "Above the Break 3", 4, 6)>> :
                 c \in StatCounts, pos \in {"Center", "Forward", "Unknown"}}

InitPosterior ==
    /\ pc = "pulled"
    /\ positions_df = <<>>
    /\ shots = <<>>
    /\ shots_df = <<>>
    /\ priors_file \in PriorFiles
    /\ player_stats_file \in StatFiles
    /\ missing = 0
    /\ results = <<>>
    /\ NothingReported

NextPosterior == ComputeAllPosteriors

SpecPosterior == InitPosterior /\ [][NextPosterior]_vars

----------------------------------------------------------------------------
(* bayesian_model.analyze_results                                          *)

\* The order of two floats that the model keeps as fractions with positive
\* denominators: -1, 0 or 1 as x < y, x = y or x > y.  The integer parts are
\* compared first and then the reciprocals of the fractional parts, so no
\* product of a numerator with a denominator is ever formed.
RECURSIVE RatCompare(_, _)
RatCompare(x, y) ==
    LET qx == x.num \div x.den
        qy == y.num \div y.den
        rx == x.num % x.den
        ry == y.num % y.den
    IN  IF qx # qy THEN (IF qx < qy THEN 0 - 1 ELSE 1)
        ELSE IF rx = 0 /\ ry = 0 THEN 0
        ELSE IF rx = 0 THEN 0 - 1
        ELSE IF ry = 0 THEN 1
        ELSE RatCompare(Rat(y.den, ry), Rat(x.den, rx))

\* pd.cut(df['attempts'], bins=[0, 20, 50, 100, 500, np.inf], labels=[...])
\* with the default right=True: bin i is (bins[i], bins[i+1]], the last one
\* is (500, inf), and a value in no bin is NaN.
CutBins == <<0, 20, 50, 100, 500>>

CutLabels == <<"Very Low (<=20)", "Low (21-50)", "Medium (51-100)",
               "High (101-500)", "Very High (>500)">>

\* Mutant of cut: the bins are closed on the left.
cut_left_closed(attempts) ==
    LET I == {i \in 1..Len(CutBins) :
                 /\ CutBins[i] <= attempts
                 /\ i < Len(CutBins) => attempts < CutBins[i + 1]}
    IN  IF I = {} THEN "NaN" ELSE CutLabels[CHOOSE i \in I : TRUE]

cut(attempts) ==
    LET I == {i \in 1..Len(CutBins) :
                 /\ CutBins[i] < attempts
                 /\ i < Len(CutBins) => attempts <= CutBins[i + 1]}
    IN  IF I = {} THEN "NaN" ELSE CutLabels[CHOOSE i \in I : TRUE]

\* df['sample_category'] = ... : the frame that was passed in gets the column
AssignSampleCategory(df) ==
    [i \in 1..Len(df) |-> [sample_category |-> cut(df[i].attempts)] @@ df[i]]

\* The row labels of df in ascending order
RECURSIVE AscendingIndices(_)
AscendingIndices(I) ==
    IF I = {} THEN <<>>
    ELSE LET m == CHOOSE i \in I : \A j \in I : i <= j
         IN  <<m>> \o AscendingIndices(I \ {m})

\* Series.mean, Series.std and DataFrame.round(4) are kept as terms over the
\* values they are applied to; mean and std skip the NaN values.
Mean(xs) == IF xs = <<>> THEN NaN ELSE [nan |-> FALSE, op |-> "mean", of |-> xs]

Std(xs) == IF Len(xs) < 2 THEN NaN ELSE [nan |-> FALSE, op |-> "std", of |-> xs]

Round4(x) == IF isna(x) THEN NaN ELSE [nan |-> FALSE, op |-> "round4", of |-> x]

\* The rows of one group of df.groupby('sample_category')
GroupOf(df, label) ==
    AscendingIndices({i \in 1..Len(df) : df[i].sample_category = label})

\* .agg({'shrinkage': ['mean', 'std'], 'ci_width': 'mean',
\*       'attempts': ['count', 'mean']}).round(4) for one category; the
\* grouping column is categorical, so every label has a row.
SampleRow(df, label) ==
    LET g == GroupOf(df, label)
        widths == SelectSeq(g, LAMBDA i : ~isna(df[i].ci_width))
    IN  [shrinkage_mean |-> Round4(Mean([k \in 1..Len(g) |-> df[g[k]].shrinkage])),
         shrinkage_std  |-> Round4(Std([k \in 1..Len(g) |-> df[g[k]].shrinkage])),
         ci_width_mean  |-> Round4(Mean([k \in 1..Len(widths) |-> df[widths[k]].ci_width])),
         attempts_count |-> Len(g),
         attempts_mean  |-> Round4(Mean([k \in 1..Len(g) |-> df[g[k]].attempts]))]

shrinkage_by_sample(df) ==
    [k \in 1..Len(CutLabels) |-> SampleRow(df, CutLabels[k])]

\* Whether the row labelled j is placed before the row labelled i when the
\* rows are ordered by key; rows of equal key go by their labels.
ComesBefore(key, descending, ties, j, i) ==
    LET c == RatCompare(key[j], key[i])
    IN  \/ (IF descending THEN c = 1 ELSE c = 0 - 1)
        \/ c = 0 /\ (IF ties = "first" THEN j < i ELSE j > i)

\* The labels I in the order of key
Ordered(I, key, descending, ties) ==
    [k \in 1..Cardinality(I) |->
        CHOOSE i \in I :
            Cardinality({j \in I : ComesBefore(key, descending, ties, j, i)}) = k - 1]

\* DataFrame.head(n), on a sequence of row labels
head(labels, n) == SubSeq(labels, 1, IF Len(labels) < n THEN Len(labels) ELSE n)

\* Mutant of elite: the top of the whole frame, whatever the zone.
elite_any_zone(df, ties) ==
    LET I == {i \in 1..Len(df) : df[i].attempts >= 100}
    IN  head(Ordered(I, [i \in I |-> df[i].posterior_mean], TRUE, ties), 10)

\* atb3[atb3['attempts'] >= 100].sort_values('posterior_mean',
\* ascending=False).head(10), as row labels.  sort_values uses quicksort,
\* which is not stable: rows of equal posterior_mean come in either order.
elite(df, ties) ==
    LET atb3 == {i \in 1..Len(df) : df[i].zone = "Above the Break 3"}
        I    == {i \in atb3 : df[i].attempts >= 100}
    IN  head(Ordered(I, [i \in I |-> df[i].posterior_mean], TRUE, ties), 10)

\* Mutant of nlargest: of the rows that tie, the last ones are taken.
nlargest_keep_last(n, key) == head(Ordered(DOMAIN key, key, TRUE, "last"), n)

\* DataFrame.nlargest(n, column) and nsmallest(n, column) with the default
\* keep='first', as row labels; key is the column.
nlargest(n, key) == head(Ordered(DOMAIN key, key, TRUE, "first"), n)

nsmallest(n, key) == head(Ordered(DOMAIN key, key, FALSE, "first"), n)

\* What analyze_results works out of the frame that has the sample_category
\* column; .iloc[0] takes the one row of nlargest(1) and nsmallest(1).
analyze_results(df, ties) ==
    LET attempts  == [i \in 1..Len(df) |-> Rat(df[i].attempts, 1)]
        shrinkage == [i \in 1..Len(df) |-> df[i].shrinkage]
    IN  [shrinkage_by_sample |-> shrinkage_by_sample(df),
         elite               |-> elite(df, ties),
         high_vol            |-> nlargest(1, attempts)[1],
         low_vol             |-> nsmallest(1, attempts)[1],
         regularized_down    |-> nlargest(5, shrinkage),
         regularized_up      |-> nsmallest(5, shrinkage)]

----------------------------------------------------------------------------
(* bayesian_model.lookup_player                                            *)

\* The characters of the player names, for str.contains
NameChars(s) ==
    CASE s = "Stephen Curry" -> <<"S", "t", "e", "p", "h", "e", "n", " ", "C", "u", "r", "r", "y">>
      [] s = "Seth Curry" -> <<"S", "e", "t", "h", " ", "C", "u", "r", "r", "y">>
      [] s = "Nikola Jokic" -> <<"N", "i", "k", "o", "l", "a", " ", "J", "o", "k", "i", "c">>
      [] s = "A. Able" -> <<"A", ".", " ", "A", "b", "l", "e">>
      [] s = "B. Baker" -> <<"B", ".", " ", "B", "a", "k", "e", "r">>
      [] s = "C. Cole" -> <<"C", ".", " ", "C", "o", "l", "e">>
      [] s = "D. Dunn" -> <<"D", ".", " ", "D", "u", "n", "n">>
      [] s = "E. Egan" -> <<"E", ".", " ", "E", "g", "a", "n">>
      [] s = "F. Ford" -> <<"F", ".", " ", "F", "o", "r", "d">>
      [] s = "G. Good" -> <<"G", ".", " ", "G", "o", "o", "d">>
      [] s = "H. Hill" -> <<"H", ".", " ", "H", "i", "l", "l">>
      [] s = "I. Ives" -> <<"I", ".", " ", "I", "v", "e", "s">>
      [] s = "J. Jett" -> <<"J", ".", " ", "J", "e", "t", "t">>
      [] s = "K. Kerr" -> <<"K", ".", " ", "K", "e", "r", "r">>
      [] s = "L. Lowe" -> <<"L", ".", " ", "L", "o", "w", "e">>
      [] s = "M. Moss" -> <<"M", ".", " ", "M", "o", "s", "s">>
      [] s = "T. Town" -> <<"T", ".", " ", "T", "o", "w", "n">>

LowerChar(c) ==
    CASE c = "A" -> "a" [] c = "B" -> "b" [] c = "C" -> "c" [] c = "D" -> "d"
      [] c = "E" -> "e" [] c = "F" -> "f" [] c = "G" -> "g" [] c = "H" -> "h"
      [] c = "I" -> "i" [] c = "J" -> "j" [] c = "K" -> "k" [] c = "L" -> "l"
      [] c = "M" -> "m" [] c = "N" -> "n" [] c = "S" -> "s" [] c = "T" -> "t"
      [] OTHER -> c

lower(cs) == [i \in 1..Len(cs) |-> LowerChar(cs[i])]

\* Series.str.contains(pat, case=False) for a pattern of plain characters
str_contains(name, pat) ==
    LET n == lower(NameChars(name))
        p == lower(NameChars(pat))
    IN  \E k \in 0..(Len(n) - Len(p)) : SubSeq(n, k + 1, k + Len(p)) = p

\* lookup_player(df, player_name): the matching rows by descending attempts
\* (as row labels), or nothing when no row matches.  df is only read.
lookup_player(df, player_name, ties) ==
    LET I == {i \in 1..Len(df) : str_contains(df[i].player_name, player_name)}
    IN  IF I = {} THEN <<>>
        ELSE Ordered(I, [i \in I |-> Rat(df[i].attempts, 1)], TRUE, ties)

----------------------------------------------------------------------------
(* convert_posterior_to_json.convert_to_json                               *)

StringColumns == {"player_name", "position", "zone", "sample_category"}

\* The columns that hold a ppf result or a difference of two
IntervalColumns == {"ci_lower", "ci_upper", "ci_width"}

\* One value of df.to_dict('records'): a str, or a number that is a Python
\* number or a numpy scalar (which of the two depends on the pandas in use);
\* na tells whether pd.isna holds of it.
RecordValue(column, value, numpy) ==
    IF column \in StringColumns
    THEN [type |-> "str", wrapper |-> "python", na |-> value = "NaN", v |-> value]
    ELSE [type |-> "number", wrapper |-> IF numpy THEN "numpy" ELSE "python",
          na |-> IF column \in IntervalColumns THEN isna(value) ELSE FALSE,
          v |-> value]

to_dict_records(df, numpy) ==
    [i \in 1..Len(df) |->
        [column \in DOMAIN df[i] |-> RecordValue(column, df[i][column], numpy)]]

\* json's null
None == [type |-> "null"]

\* Mutant of JsonValue: a numpy scalar is left as it is.
JsonValue_keep_numpy(value) == IF value.na THEN None ELSE value

\* if pd.isna(value): None / elif hasattr(value, 'item'): value.item()
JsonValue(value) ==
    IF value.na THEN None
    ELSE IF value.wrapper = "numpy" THEN [value EXCEPT !.wrapper = "python"]
    ELSE value

\* The array of objects json.dump writes
convert_to_json(df, numpy) ==
    LET data == to_dict_records(df, numpy)
    IN  [i \in 1..Len(data) |->
            [key \in DOMAIN data[i] |-> JsonValue(data[i][key])]]

----------------------------------------------------------------------------
(* bayesian_model.main after compute_all_posteriors, and the conversion    *)
(* script on the file it leaves                                            *)

\* analyze_results(results); an empty frame has no columns and makes it fail.
AnalyzeResults(ties) ==
    /\ pc = "posteriors"
    /\ results # <<>>
    /\ results' = AssignSampleCategory(results)
    /\ analysis' = analyze_results(AssignSampleCategory(results), ties)
    /\ pc' = "analyzed"
    /\ UNCHANGED <<positions_df, shots, shots_df, priors_file, player_stats_file,
                   missing, lookup, posteriors_file, json_file, aggregated>>

\* results.to_parquet(OUTPUT_FILE, index=False)
SaveResults ==
    /\ pc = "analyzed"
    /\ posteriors_file' = results
    /\ pc' = "saved"
    /\ UNCHANGED <<positions_df, shots, shots_df, priors_file, player_stats_file,
                   missing, results, analysis, lookup, json_file, aggregated>>

\* lookup_player(results, "Stephen Curry"); lookup_player(results, "Nikola Jokic")
LookupPlayers(ties) ==
    /\ pc = "saved"
    /\ lookup' = <<lookup_player(results, "Stephen Curry", ties),
                   lookup_player(results, "Nikola Jokic", ties)>>
    /\ pc' = "done"
    /\ UNCHANGED <<positions_df, shots, shots_df, priors_file, player_stats_file,
                   missing, results, analysis, posteriors_file, json_file, aggregated>>

\* convert_to_json() on the saved posteriors
ConvertToJson(numpy) ==
    /\ pc \in {"saved", "done"}
    /\ json_file' = convert_to_json(posteriors_file, numpy)
    /\ UNCHANGED <<pc, positions_df, shots, shots_df, priors_file, player_stats_file,
                   missing, results, analysis, lookup, posteriors_file, aggregated>>

\* The player statistics the analysis is studied on, in the order of the
\* file: attempts on every side of the category bounds, eleven players with
\* 100 attempts or more above the break, equal counts among them.
AnalysisStats ==
    <<StatOf(1, "A. Able", "Guard", "Above the Break 3", 50, 100),
      StatOf(1, "A. Able", "Guard", "Restricted Area", 12, 20),
      StatOf(2, "B. Baker", "Guard", "Above the Break 3", 40, 101),
      StatOf(3, "C. Cole", "Guard", "Above the Break 3", 250, 500),
      StatOf(4, "D. Dunn", "Guard", "Above the Break 3", 251, 501),
      StatOf(5, "E. Egan", "Guard", "Above the Break 3", 50, 100),
      StatOf(6, "F. Ford", "Guard", "Above the Break 3", 60, 120),
      StatOf(7, "G. Good", "Guard", "Above the Break 3", 60, 120),
      StatOf(8, "H. Hill", "Guard", "Above the Break 3", 99, 99),
      StatOf(9, "I. Ives", "Guard", "Above the Break 3", 30, 110),
      StatOf(10, "J. Jett", "Guard", "Above the Break 3", 40, 115),
      StatOf(11, "K. Kerr", "Guard", "Above the Break 3", 80, 200),
      StatOf(12, "L. Lowe", "Guard", "Above the Break 3", 20, 140),
      StatOf(13, "M. Moss", "Guard", "Restricted Area", 150, 150),
      StatOf(14, "Nikola Jokic", "Center", "Above the Break 3", 0, 5),
      StatOf(15, "Seth Curry", "Guard", "Above the Break 3", 10, 21),
      StatOf(16, "Stephen Curry", "Guard", "Above the Break 3", 30, 51),
      StatOf(16, "Stephen Curry", "Guard", "Restricted Area", 25, 50),
      StatOf(17, "T. Town", "Unknown", "Above the Break 3", 3, 6)>>

\* The files bayesian_model.main can find: a run of consecutive players'
\* rows, and priors for every position and zone of the rows or for the guards
\* above the break alone.
AnalysisStatFiles ==
    {SubSeq(AnalysisStats, i, j) : i \in 1..Len(AnalysisStats), j \in 1..Len(AnalysisStats)}
        \ {<<>>}

AnalysisPriorFiles ==
    {<<PriorOf("Center", "Above the Break 3", 0, 5),
       PriorOf("Guard", "Above the Break 3", 3, 8),
       PriorOf("Guard", "Restricted Area", 1, 2)>>,
     <<PriorOf("Guard", "Above the Break 3", 1, 2)>>}

InitAnalysis ==
    /\ pc = "pulled"
    /\ positions_df = <<>>
    /\ shots = <<>>
    /\ shots_df = <<>>
    /\ priors_file \in AnalysisPriorFiles
    /\ player_stats_file \in AnalysisStatFiles
    /\ missing = 0
    /\ results = <<>>
    /\ NothingReported

NextAnalysis ==
    \/ ComputeAllPosteriors
    \/ \E ties \in {"first", "last"} : AnalyzeResults(ties)
    \/ SaveResults
    \/ \E ties \in {"first", "last"} : LookupPlayers(ties)
    \/ \E numpy \in BOOLEAN : ConvertToJson(numpy)

SpecAnalysis == InitAnalysis /\ [][NextAnalysis]_vars

----------------------------------------------------------------------------
(* The two aggregations of data_pull.py on shot tables in any order: the   *)
(* table as it is, the same rows in another order, and the rows split into *)
(* two tables.                                                             *)

\* Most rows of a shot table in this study.
MaxOutcomes == 4

\* Rows of the merged shot table: two guards, two zones, makes and misses
OutcomeRows ==
    {[PLAYER_ID |-> 1, PLAYER_NAME |-> "A. Able", SHOT_ZONE_BASIC |-> "Above the Break 3",
      SHOT_MADE_FLAG |-> 1, POSITION |-> "Guard"],
     [PLAYER_ID |-> 1, PLAYER_NAME |-> "A. Able", SHOT_ZONE_BASIC |-> "Above the Break 3",
      SHOT_MADE_FLAG |-> 0, POSITION |-> "Guard"],
     [PLAYER_ID |-> 2, PLAYER_NAME |-> "B. Baker", SHOT_ZONE_BASIC |-> "Above the Break 3",
      SHOT_MADE_FLAG |-> 1, POSITION |-> "Guard"],
     [PLAYER_ID |-> 2, PLAYER_NAME |-> "B. Baker", SHOT_ZONE_BASIC |-> "Restricted Area",
      SHOT_MADE_FLAG |-> 0, POSITION |-> "Guard"]}

OutcomeTables == UNION {[1..n -> OutcomeRows] : n \in 1..MaxOutcomes}

\* The rows of df with their label in I, in the order of df
RECURSIVE TakeRows(_, _)
TakeRows(df, I) ==
    IF df = <<>> THEN <<>>
    ELSE LET front == TakeRows(SubSeq(df, 1, Len(df) - 1), I)
         IN  IF Len(df) \in I THEN Append(front, df[Len(df)]) ELSE front

\* Both aggregations of one table
Aggregate(df) ==
    [priors |-> compute_position_priors(df), stats |-> group_player_stats(df)]

InitAggregate ==
    /\ pc = "shots"
    /\ positions_df = <<>>
    /\ shots = <<>>
    /\ shots_df \in OutcomeTables
    /\ priors_file = <<>>
    /\ player_stats_file = <<>>
    /\ missing = 0
    /\ results = <<>>
    /\ NothingReported

\* Aggregate the table and the same rows in the order perm
AggregateReordered(perm) ==
    /\ pc = "shots"
    /\ aggregated' = [whole |-> Aggregate(shots_df),
                      parts |-> <<Aggregate([i \in 1..Len(shots_df) |-> shots_df[perm[i]]])>>]
    /\ pc' = "aggregated"
    /\ UNCHANGED <<positions_df, shots, shots_df, priors_file, player_stats_file,
                   missing, results, analysis, lookup, posteriors_file, json_file>>

\* Aggregate the table, and the rows labelled I and the other rows apart
AggregateSplit(I) ==
    /\ pc = "shots"
    /\ aggregated' = [whole |-> Aggregate(shots_df),
                      parts |-> <<Aggregate(TakeRows(shots_df, I)),
                                  Aggregate(TakeRows(shots_df, (1..Len(shots_df)) \ I))>>]
    /\ pc' = "aggregated"
    /\ UNCHANGED <<positions_df, shots, shots_df, priors_file, player_stats_file,
                   missing, results, analysis, lookup, posteriors_file, json_file>>

NextAggregate ==
    \/ \E perm \in {f \in [1..Len(shots_df) -> 1..Len(shots_df)] :
                       \A i, j \in 1..Len(shots_df) : f[i] = f[j] => i = j} :
          AggregateReordered(perm)
    \/ \E I \in SUBSET (1..Len(shots_df)) : AggregateSplit(I)

SpecAggregate == InitAggregate /\ [][NextAggregate]_vars

----------------------------------------------------------------------------
(* data_pull.main run again on the files a first run saved                 *)

\* Every string the roster's POSITION column is modelled to hold
RosterStrings == {"G", "F", "C", "G-F", "F-G", "F-C", "C-F", " c ", "", "NaN"}

\* The shot tables of the first run in this study
RerunShots ==
    LET row(id, name, zone, made) ==
            [PLAYER_ID |-> id, PLAYER_NAME |-> name, SHOT_ZONE_BASIC |-> zone,
             SHOT_MADE_FLAG |-> made]
        a == row(1, "A. Able", "Above the Break 3", 1)
        b == row(1, "A. Able", "Above the Break 3", 0)
        c == row(2, "B. Baker", "Restricted Area", 1)
    IN  {<<a, a, b, b, b>>, <<a, b, c>>, <<c, c, c, c, c, c>>}

InitRerun ==
    /\ pc = "scrape"
    /\ positions_df \in [PlayerIds -> RosterStrings]
    /\ shots \in RerunShots
    /\ shots_df = <<>>
    /\ priors_file = <<>>
    /\ player_stats_file = <<>>
    /\ missing = 0
    /\ results = <<>>
    /\ NothingReported

\* data_pull.main when both files exist and the saved positions are loaded
\* (answer other than 'y').  With rescrape the shots are scraped again (the
\* season is over: the same shots) and merge_position_data maps the loaded
\* table once more; without, the saved shots have their POSITION column and
\* nothing is merged.  Priors and statistics are computed and all is saved.
DataPullRerun(rescrape) ==
    /\ pc = "pulled"
    /\ LET df == IF rescrape THEN merge_position_data(shots, positions_df) ELSE shots_df
       IN  /\ shots_df' = df
           /\ priors_file' = compute_position_priors(df)
           /\ player_stats_file' = compute_player_stats(df)
    /\ positions_df' = IF rescrape THEN MappedPositions(positions_df) ELSE positions_df
    /\ pc' = "pulled"
    /\ UNCHANGED <<shots, missing, results>>
    /\ UNCHANGED reportVars

NextRerun ==
    \/ DataPullMain
    \/ \E rescrape \in BOOLEAN : DataPullRerun(rescrape)

SpecRerun == InitRerun /\ [][NextRerun]_vars

----------------------------------------------------------------------------
(* Claims *)

\* C1: compute_posterior performs the conjugate update: whenever
\* 0 <= makes <= attempts and the prior has alpha > 0 and beta > 0, the record
\* has posterior_alpha = alpha + makes and posterior_beta = beta + (attempts -
\* makes), both strictly positive; prior 450/550 with 9 makes of 10 attempts
\* gives 459 and 551.
C1_ConjugateUpdate ==
    \A i \in 1..Len(results) :
        LET r == results[i]
        IN  (0 <= r.makes /\ r.makes <= r.attempts /\ r.prior_alpha > 0 /\ r.prior_beta > 0)
            => /\ r.posterior_alpha = r.prior_alpha + r.makes
               /\ r.posterior_beta = r.prior_beta + (r.attempts - r.makes)
               /\ r.posterior_alpha > 0
               /\ r.posterior_beta > 0
               /\ (r.prior_alpha = 450 /\ r.prior_beta = 550 /\ r.makes = 9 /\ r.attempts = 10)
                      => (r.posterior_alpha = 459 /\ r.posterior_beta = 551)

C1_Witness ==
    \E i \in 1..Len(results) :
        /\ results[i].prior_alpha = 450 /\ results[i].prior_beta = 550
        /\ results[i].makes = 9 /\ results[i].attempts = 10
        /\ results[i].posterior_alpha = 459

\* C6: every emitted record has shrinkage = raw_pct - posterior_mean, with
\* raw_pct = makes / attempts and posterior_mean = posterior_alpha /
\* (posterior_alpha + posterior_beta); the shrinkage is 0 for prior 450/550 and
\* 900 makes of 2000 attempts.
C6_Shrinkage ==
    \A i \in 1..Len(results) :
        LET r == results[i]
        IN  /\ RatEq(r.raw_fg_pct, Rat(r.makes, r.attempts))
            /\ RatEq(r.posterior_mean,
                     Rat(r.posterior_alpha, r.posterior_alpha + r.posterior_beta))
            /\ RatEq(r.shrinkage,
                     Rat(r.makes * (r.posterior_alpha + r.posterior_beta)
                             - r.posterior_alpha * r.attempts,
                         r.attempts * (r.posterior_alpha + r.posterior_beta)))
            /\ (r.prior_alpha = 450 /\ r.prior_beta = 550 /\ r.makes = 900
                    /\ r.attempts = 2000) => r.shrinkage.num = 0

C6_Witness ==
    \E i \in 1..Len(results) :
        /\ results[i].prior_alpha = 450 /\ results[i].prior_beta = 550
        /\ results[i].makes = 900 /\ results[i].attempts = 2000
        /\ results[i].shrinkage.num = 0

\* C2: every pair the pipeline joins and passes to compute_posterior yields
\* posterior_alpha > 0 and posterior_beta > 0.
C2_PositiveShapes ==
    \A i \in 1..Len(results) :
        results[i].posterior_alpha > 0 /\ results[i].posterior_beta > 0

HasPrior(row, priors) ==
    \E j \in 1..Len(priors) :
        priors[j].position = row.position /\ priors[j].zone = row.zone

SameEntity(rec, row) ==
    /\ rec.player_id = row.player_id /\ rec.player_name = row.player_name
    /\ rec.position = row.position /\ rec.zone = row.zone
    /\ rec.makes = row.makes /\ rec.attempts = row.attempts

\* C3: once compute_all_posteriors has run, every player-statistics row whose
\* (position, zone) matches a prior is in the output exactly once, every row
\* without a matching prior is absent from the output, and the count reported
\* is the number of rows without a matching prior.
C3_MergeDropsUnmatched ==
    pc = "posteriors" =>
        /\ \A i \in 1..Len(player_stats_file) :
              LET row  == player_stats_file[i]
                  outs == {j \in 1..Len(results) : SameEntity(results[j], row)}
              IN  IF HasPrior(row, priors_file)
                  THEN Cardinality(outs) = 1
                  ELSE outs = {}
        /\ missing = Cardinality({i \in 1..Len(player_stats_file) :
                                     ~HasPrior(player_stats_file[i], priors_file)})
        /\ Len(results) = Len(player_stats_file) - missing

\* One unmatched row (an 'Unknown' player) while a prior for its zone exists:
\* the row is dropped and the count is 1.
C3_Witness ==
    /\ pc = "posteriors"
    /\ missing = 1
    /\ Len(player_stats_file) = 1
    /\ results = <<>>
    /\ \E j \in 1..Len(priors_file) : priors_file[j].zone = player_stats_file[1].zone

\* C4: no emitted posterior record has a NaN ci_lower or ci_upper.
C4_NoNaNInterval ==
    \A i \in 1..Len(results) :
        ~isna(results[i].ci_lower) /\ ~isna(results[i].ci_upper)

\* C5: every posterior record has ci_lower <= posterior_mean <= ci_upper and
\* ci_width = ci_upper - ci_lower >= 0.
C5_MeanInsideInterval ==
    \A i \in 1..Len(results) :
        LET r == results[i]
        IN  /\ PpfLeqRat(r.ci_lower, r.posterior_mean)
            /\ RatLeqPpf(r.posterior_mean, r.ci_upper)
            /\ WidthNonNegative(r.ci_width)

\* Number of rows of the merged shot table with the given position and zone
ShotsOfGroup(position, zone) ==
    Cardinality({i \in 1..Len(shots_df) :
                    shots_df[i].POSITION = position /\ shots_df[i].SHOT_ZONE_BASIC = zone})

\* ... and of those, the rows of made shots
MakesOfGroup(position, zone) ==
    Cardinality({i \in 1..Len(shots_df) :
                    /\ shots_df[i].POSITION = position
                    /\ shots_df[i].SHOT_ZONE_BASIC = zone
                    /\ shots_df[i].SHOT_MADE_FLAG = 1})

\* C7: every prior row has alpha = makes >= 0, beta = attempts - makes >= 0 and
\* alpha + beta = attempts > 0, and a (position, zone) pair without any
\* known-position shot has no prior row.
C7_PriorRows ==
    \A j \in 1..Len(priors_file) :
        LET r == priors_file[j]
        IN  /\ r.alpha = r.makes /\ r.alpha >= 0
            /\ r.beta = r.attempts - r.makes /\ r.beta >= 0
            /\ r.alpha + r.beta = r.attempts /\ r.attempts > 0
            /\ ShotsOfGroup(r.position, r.zone) > 0
            /\ r.makes = MakesOfGroup(r.position, r.zone)

\* A prior with makes and misses exists, and a pair without shots has no row.
C7_Witness ==
    /\ \E j \in 1..Len(priors_file) : priors_file[j].alpha > 0 /\ priors_file[j].beta > 0
    /\ \E z \in Zones :
          /\ ShotsOfGroup("Guard", z) = 0
          /\ \A j \in 1..Len(priors_file) :
                ~(priors_file[j].position = "Guard" /\ priors_file[j].zone = z)

\* C8: no prior row has position 'Unknown'; each prior row counts exactly the
\* shots of its own position and zone, and a zone has one row per position,
\* so an 'Unknown' shot is counted in no row.
C8_UnknownExcluded ==
    /\ \A j \in 1..Len(priors_file) :
          /\ priors_file[j].position # "Unknown"
          /\ priors_file[j].attempts
                 = ShotsOfGroup(priors_file[j].position, priors_file[j].zone)
          /\ priors_file[j].makes
                 = MakesOfGroup(priors_file[j].position, priors_file[j].zone)
    /\ \A z \in Zones :
          LET I == {j \in 1..Len(priors_file) : priors_file[j].zone = z}
          IN  Cardinality(I) = Cardinality({priors_file[j].position : j \in I})

\* 'Unknown' shots in a zone that has a prior
C8_Witness ==
    \E z \in Zones :
        /\ ShotsOfGroup("Unknown", z) > 0
        /\ \E j \in 1..Len(priors_file) : priors_file[j].zone = z

\* The shots of one group of compute_player_stats
GroupShots(k) == Cardinality({i \in 1..Len(shots_df) : StatKey(shots_df[i]) = k})

\* C9: every player-statistics row has attempts >= 5 and makes <= attempts; a
\* group with fewer than 5 attempts has no row and a group with 5 or more
\* attempts has one.
C9_MinimumAttempts ==
    pc # "scrape" =>
        /\ \A i \in 1..Len(player_stats_file) :
              /\ player_stats_file[i].attempts >= 5
              /\ player_stats_file[i].makes <= player_stats_file[i].attempts
        /\ \A s \in Rows(shots_df) :
              LET k    == StatKey(s)
                  rows == {i \in 1..Len(player_stats_file) :
                              /\ player_stats_file[i].player_id = k[1]
                              /\ player_stats_file[i].player_name = k[2]
                              /\ player_stats_file[i].position = k[3]
                              /\ player_stats_file[i].zone = k[4]}
              IN  IF GroupShots(k) >= 5
                  THEN \E i \in rows : player_stats_file[i].attempts = GroupShots(k)
                  ELSE rows = {}

\* A group of exactly 5 shots is kept while another group is dropped.
C9_Witness ==
    /\ pc # "scrape"
    /\ \E i \in 1..Len(player_stats_file) : player_stats_file[i].attempts = 5
    /\ \E s \in Rows(shots_df) : GroupShots(StatKey(s)) < 5

\* Shots, and made shots, of a player in a position and zone, under any name
PlayerShots(id, position, zone, flags) ==
    Cardinality({i \in 1..Len(shots_df) :
                    /\ shots_df[i].PLAYER_ID = id
                    /\ shots_df[i].POSITION = position
                    /\ shots_df[i].SHOT_ZONE_BASIC = zone
                    /\ shots_df[i].SHOT_MADE_FLAG \in flags})

\* C10: there is at most one player-statistics row per (player_id, position,
\* zone), and its makes and attempts count all the shots of that player in
\* that position and zone, whatever player_name the shots carry.
C10_GroupedByPlayer ==
    /\ \A i, j \in 1..Len(player_stats_file) :
          (/\ player_stats_file[i].player_id = player_stats_file[j].player_id
           /\ player_stats_file[i].position = player_stats_file[j].position
           /\ player_stats_file[i].zone = player_stats_file[j].zone) => i = j
    /\ \A i \in 1..Len(player_stats_file) :
          LET r == player_stats_file[i]
          IN  /\ r.attempts = PlayerShots(r.player_id, r.position, r.zone, {0, 1})
              /\ r.makes = PlayerShots(r.player_id, r.position, r.zone, {1})

\* The analysis has run (bayesian_model.main is past analyze_results)
Analyzed == pc \in {"analyzed", "saved", "done"}

\* C11: the Analysis Layer is read-only over the posterior records: after
\* analyze_results and lookup_player the table has the rows, columns and
\* values it had before, and the table main writes out is exactly what
\* compute_all_posteriors returned.
C11_AnalysisReadOnly ==
    LET returned == compute_all_posteriors(priors_file, player_stats_file)
    IN  /\ Analyzed => results = returned
        /\ pc \in {"saved", "done"} => posteriors_file = returned

\* C13: convert_to_json emits one object per posterior record, in the same
\* order and with the same keys; every missing value is an explicit null and
\* every other value is a plain one (no numpy scalar) of the same magnitude.
C13_JsonObjects ==
    json_file # <<>> =>
        /\ Len(json_file) = Len(posteriors_file)
        /\ \A i \in 1..Len(json_file) :
              /\ DOMAIN json_file[i] = DOMAIN posteriors_file[i]
              /\ \A key \in DOMAIN json_file[i] :
                    LET value == posteriors_file[i][key]
                        json  == json_file[i][key]
                    IN  IF key \in IntervalColumns /\ isna(value)
                        THEN json = None
                        ELSE /\ json.type \in {"number", "str"}
                             /\ json.wrapper = "python"
                             /\ json.v = value

\* A file with an undefined interval next to defined ones has been converted.
C13_Witness ==
    /\ json_file # <<>>
    /\ \E i, j \in 1..Len(json_file) :
          /\ json_file[i].ci_lower = None
          /\ json_file[i].ci_width = None
          /\ json_file[i].attempts.type = "number"
          /\ json_file[j].ci_lower # None

\* The sample-size category the boundaries 20/50/100/500 give, upper bounds
\* inclusive
BucketOf(attempts) ==
    IF attempts <= 20 THEN 1
    ELSE IF attempts <= 50 THEN 2
    ELSE IF attempts <= 100 THEN 3
    ELSE IF attempts <= 500 THEN 4
    ELSE 5

\* The records of bucket k, in the order of the table
BucketRecords(k) ==
    AscendingIndices({i \in 1..Len(results) : BucketOf(results[i].attempts) = k})

\* C14: analyze_results puts every posterior record into exactly one
\* sample-size bucket by the boundaries 20/50/100/500 with inclusive upper
\* bounds, leaves no record with attempts >= 1 without a bucket, and computes
\* the statistics of a bucket over exactly the records of that bucket (the
\* count, the mean and the deviation of shrinkage and the mean of attempts
\* over all of them, the mean of ci_width over those that have a width).
C14_SampleBuckets ==
    Analyzed =>
        /\ \A i \in 1..Len(results) :
              results[i].attempts >= 1 =>
                  /\ results[i].sample_category = CutLabels[BucketOf(results[i].attempts)]
                  /\ Cardinality({k \in 1..Len(CutLabels) :
                                     results[i].sample_category = CutLabels[k]}) = 1
        /\ \A k \in 1..Len(CutLabels) :
              LET members == BucketRecords(k)
                  widths  == SelectSeq(members, LAMBDA i : ~isna(results[i].ci_width))
                  row     == analysis.shrinkage_by_sample[k]
              IN  /\ row.attempts_count = Len(members)
                  /\ row.shrinkage_mean =
                        Round4(Mean([j \in 1..Len(members) |-> results[members[j]].shrinkage]))
                  /\ row.shrinkage_std =
                        Round4(Std([j \in 1..Len(members) |-> results[members[j]].shrinkage]))
                  /\ row.attempts_mean =
                        Round4(Mean([j \in 1..Len(members) |-> results[members[j]].attempts]))
                  /\ row.ci_width_mean =
                        Round4(Mean([j \in 1..Len(widths) |-> results[widths[j]].ci_width]))

\* Records on both sides of every boundary have been put into buckets.
C14_Witness ==
    /\ Analyzed
    /\ \A a \in {20, 21, 50, 51, 100, 101, 500, 501} :
          \E i \in 1..Len(results) : results[i].attempts = a
    /\ \A k \in 1..Len(CutLabels) : analysis.shrinkage_by_sample[k].attempts_count > 0

\* The records the Top-N ranking is taken from
Eligible ==
    {i \in 1..Len(results) :
        results[i].zone = "Above the Break 3" /\ results[i].attempts >= 100}

\* C15: the Top-N ranking of analyze_results returns at most 10 records, all
\* with zone 'Above the Break 3' and attempts >= 100, in the order of
\* non-increasing posterior_mean, and no record that meets the filter and is
\* left out has a posterior_mean greater than one that is included.
C15_TopN ==
    Analyzed =>
        LET top == analysis.elite
            mean(i) == results[i].posterior_mean
        IN  /\ Len(top) <= 10
            /\ \A k \in 1..Len(top) : top[k] \in Eligible
            /\ \A k, l \in 1..Len(top) : k < l => top[k] # top[l]
            /\ \A k \in 1..(Len(top) - 1) : RatCompare(mean(top[k]), mean(top[k + 1])) >= 0
            /\ \A j \in Eligible \ {top[k] : k \in 1..Len(top)} :
                  \A k \in 1..Len(top) : RatCompare(mean(j), mean(top[k])) <= 0

\* Eleven records meet the filter, ten are returned, two of them with the
\* same posterior_mean, and a record of another zone has a greater mean.
C15_Witness ==
    /\ Analyzed
    /\ Cardinality(Eligible) = 11
    /\ Len(analysis.elite) = 10
    /\ \E k \in 1..9 :
          RatCompare(results[analysis.elite[k]].posterior_mean,
                     results[analysis.elite[k + 1]].posterior_mean) = 0
    /\ \E i \in 1..Len(results) :
          /\ results[i].zone # "Above the Break 3"
          /\ results[i].attempts >= 100
          /\ RatCompare(results[i].posterior_mean,
                        results[analysis.elite[1]].posterior_mean) = 1

\* Record a is ranked before record b: its value is greater (sign 1) or
\* smaller (sign -1), or the values tie and a comes first in the table.
RankedBefore(key, sign, a, b) ==
    LET c == RatCompare(key[a], key[b])
    IN  c = sign \/ (c = 0 /\ a < b)

\* picked holds the n first-ranked records of the table, in rank order
FirstRanked(picked, key, sign, n) ==
    LET all == 1..Len(results)
        in  == {picked[k] : k \in 1..Len(picked)}
    IN  /\ Len(picked) = (IF Len(results) < n THEN Len(results) ELSE n)
        /\ in \subseteq all
        /\ \A k, l \in 1..Len(picked) : k < l => RankedBefore(key, sign, picked[k], picked[l])
        /\ \A a \in in : \A b \in all \ in : RankedBefore(key, sign, a, b)

\* C16: the extremal lookups of analyze_results return the record of maximum
\* attempts, the record of minimum attempts, and the 5 records of largest and
\* of smallest shrinkage; of records that tie on the ranked value the one
\* that comes first in the input order is selected before the later ones.
C16_Extremes ==
    Analyzed =>
        LET attempts  == [i \in 1..Len(results) |-> Rat(results[i].attempts, 1)]
            shrinkage == [i \in 1..Len(results) |-> results[i].shrinkage]
        IN  /\ FirstRanked(<<analysis.high_vol>>, attempts, 1, 1)
            /\ FirstRanked(<<analysis.low_vol>>, attempts, 0 - 1, 1)
            /\ FirstRanked(analysis.regularized_down, shrinkage, 1, 5)
            /\ FirstRanked(analysis.regularized_up, shrinkage, 0 - 1, 5)

\* More than five records, two of them tie on the maximum of attempts and
\* two of the five of largest shrinkage tie.
C16_Witness ==
    /\ Analyzed
    /\ Len(results) > 5
    /\ \E j \in 1..Len(results) :
          /\ j # analysis.high_vol
          /\ results[j].attempts = results[analysis.high_vol].attempts
    /\ \E k \in 1..4 :
          RatCompare(results[analysis.regularized_down[k]].shrinkage,
                     results[analysis.regularized_down[k + 1]].shrinkage) = 0

\* The makes and attempts a prior table holds, by key
PriorSums(priors) ==
    {[key |-> <<r.position, r.zone>>, makes |-> r.makes, attempts |-> r.attempts] :
        r \in Rows(priors)}

\* The makes and attempts a player table holds, by key
StatSums(stats) ==
    {[key |-> <<r.player_id, r.player_name, r.position, r.zone>>,
      makes |-> r.makes, attempts |-> r.attempts] : r \in Rows(stats)}

\* The count a table of sums holds for key k, 0 if it has no such key
SumOfKey(sums, k, column) ==
    LET S == {r \in sums : r.key = k}
    IN  IF S = {} THEN 0 ELSE (CHOOSE r \in S : TRUE)[column]

\* The sums of the parts, merged by key
MergeByKey(parts) ==
    LET keys == UNION {{r.key : r \in parts[n]} : n \in 1..Len(parts)}
        total(k, column) ==
            SumOfKey(parts[1], k, column)
                + (IF Len(parts) > 1 THEN SumOfKey(parts[2], k, column) ELSE 0)
    IN  {[key |-> k, makes |-> total(k, "makes"), attempts |-> total(k, "attempts")] :
            k \in keys}

\* C12: the aggregation of the Prior Builder and of the Entity Aggregator is
\* commutative and associative: the makes and attempts of each key do not
\* depend on the order of the outcome records, and aggregating the parts of
\* a partition apart and summing makes and attempts by key gives the sums of
\* aggregating all outcomes at once.
C12_AggregationPartitionable ==
    pc = "aggregated" =>
        LET whole == aggregated.whole
            parts == aggregated.parts
        IN  /\ Cardinality(PriorSums(whole.priors)) = Len(whole.priors)
            /\ Cardinality(StatSums(whole.stats)) = Len(whole.stats)
            /\ MergeByKey([n \in 1..Len(parts) |-> PriorSums(parts[n].priors)])
                   = PriorSums(whole.priors)
            /\ MergeByKey([n \in 1..Len(parts) |-> StatSums(parts[n].stats)])
                   = StatSums(whole.stats)

\* A key with makes and misses whose rows went to both parts of a split, or
\* whose rows were aggregated in another order.
C12_Witness ==
    /\ pc = "aggregated"
    /\ \E r \in PriorSums(aggregated.whole.priors) :
          /\ r.makes > 0
          /\ r.makes < r.attempts
          /\ Len(aggregated.parts) = 2
          /\ SumOfKey(PriorSums(aggregated.parts[1].priors), r.key, "attempts") > 0
          /\ SumOfKey(PriorSums(aggregated.parts[2].priors), r.key, "attempts") > 0
    /\ Len(aggregated.whole.stats) > 1

\* |x| of a fraction
AbsRat(x) == Rat(Abs(x.num), x.den)

\* C17: for every joined pair with prior alpha + beta > 0 and attempts > 0
\* the posterior_mean lies between prior_pct = alpha / (alpha + beta) and
\* raw_pct = makes / attempts (inclusive), so shrinkage has the sign of
\* raw_pct - prior_pct and its magnitude never exceeds |raw_pct - prior_pct|.
C17_MeanBetweenPriorAndRaw ==
    \A i \in 1..Len(results) :
        LET r     == results[i]
            prior == Rat(r.prior_alpha, r.prior_alpha + r.prior_beta)
            raw   == Rat(r.makes, r.attempts)
            zero  == Rat(0, 1)
        IN  (r.prior_alpha + r.prior_beta > 0 /\ r.attempts > 0) =>
                /\ RatCompare(r.prior_fg_pct, prior) = 0
                /\ RatCompare(r.raw_fg_pct, raw) = 0
                /\ \/ /\ RatCompare(prior, r.posterior_mean) <= 0
                      /\ RatCompare(r.posterior_mean, raw) <= 0
                   \/ /\ RatCompare(raw, r.posterior_mean) <= 0
                      /\ RatCompare(r.posterior_mean, prior) <= 0
                /\ RatCompare(r.shrinkage, zero) = RatCompare(raw, prior)
                /\ RatCompare(AbsRat(r.shrinkage), AbsRat(RatSub(raw, prior))) <= 0

\* One record pulled down from a raw rate above the prior, one pulled up.
C17_Witness ==
    \E i, j \in 1..Len(results) :
        /\ results[i].shrinkage.num > 0
        /\ results[j].shrinkage.num < 0
        /\ results[i].attempts > 0
        /\ results[i].prior_alpha + results[i].prior_beta > 0

\* The rows of the player statistics with position 'Unknown'
UnknownStats == SelectSeq(player_stats_file, LAMBDA r : r.position = "Unknown")

\* C18: across the pipeline no posterior record has position 'Unknown':
\* compute_player_stats keeps the Unknown-position rows, but no prior has
\* position 'Unknown', so every such row is dropped at the merge and counted
\* as a row without matching prior.
C18_NoUnknownPosterior ==
    /\ \A i \in 1..Len(results) : results[i].position # "Unknown"
    /\ \A i \in 1..Len(priors_file) : priors_file[i].position # "Unknown"
    /\ pc # "scrape" =>
          \A i \in 1..Len(shots_df) :
              LET s == shots_df[i]
                  n == Cardinality({k \in 1..Len(shots_df) :
                                       /\ shots_df[k].PLAYER_ID = s.PLAYER_ID
                                       /\ shots_df[k].PLAYER_NAME = s.PLAYER_NAME
                                       /\ shots_df[k].POSITION = s.POSITION
                                       /\ shots_df[k].SHOT_ZONE_BASIC = s.SHOT_ZONE_BASIC})
              IN  (s.POSITION = "Unknown" /\ n >= MIN_ATTEMPTS) =>
                      \E j \in 1..Len(UnknownStats) :
                          /\ UnknownStats[j].player_id = s.PLAYER_ID
                          /\ UnknownStats[j].player_name = s.PLAYER_NAME
                          /\ UnknownStats[j].zone = s.SHOT_ZONE_BASIC
                          /\ UnknownStats[j].attempts = n
    /\ pc = "posteriors" =>
          /\ missing >= Len(UnknownStats)
          /\ \A j \in 1..Len(UnknownStats) :
                \A i \in 1..Len(results) : ~SameEntity(results[i], UnknownStats[j])
          /\ Len(results) = Len(player_stats_file) - missing

\* An Unknown-position row was kept by compute_player_stats and dropped and
\* counted at the merge.
C18_Witness ==
    /\ pc = "posteriors"
    /\ Len(UnknownStats) > 0
    /\ missing = Len(UnknownStats)
    /\ Len(priors_file) > 0

\* C19: map_position is idempotent on its own outputs 'Guard', 'Forward',
\* 'Center', 'Unknown', so that when main loads the mapped position table
\* that save_data wrote and merge_position_data maps it again, every
\* player's position category is unchanged.
C19_RemapKeepsPositions ==
    [][(pc = "pulled" /\ pc' = "pulled") =>
          /\ positions_df' = positions_df
          /\ \A i \in 1..Len(shots_df) : shots_df'[i].POSITION = shots_df[i].POSITION]_vars

====
